---------------------------- MODULE Spec2Model ----------------------------
(***************************************************************************)
(* Model of src/src/arelle_tools.py (parse_xbrl and the presentation-tree  *)
(* walker output_fact_with_hierarchy) driven by src/src/generate_fs.py.    *)
(*                                                                         *)
(* Representation of Python strings: a string is a sequence of tokens      *)
(* (TLA+ strings).  Markup-bearing strings (linkrole definitions, fact     *)
(* values) are tokenised one character per token; names are tokenised     *)
(* into prefix-free words, so that startswith / substring / lexicographic  *)
(* comparison on token sequences agree with the same operations on the     *)
(* Python strings they stand for.                                          *)
(***************************************************************************)
EXTENDS Integers, Sequences, FiniteSets, TLC

(***************************************************************************)
(* Strings                                                                 *)
(***************************************************************************)

\* All tokens, in ascending code-point order of the text they stand for.
TokenOrder ==
    << " ", "0", "1", "2", "3", "4", "9", ":", "<", ">",
       "Abstract", "And", "Assets", "Axis", "B", "BalanceSheet",
       "CashAndDeposits", "CashFlows", "Consolidated", "CurrentYear",
       "Duration", "Heading", "Instant", "Member", "Non", "Or", "Other",
       "Prior1Year", "S", "Table", "_", "b", "jpcrp_cor", "jppfs_cor",
       "label", "periodStart", "total", "x" >>

Rank(t) == CHOOSE i \in 1..Len(TokenOrder) : TokenOrder[i] = t

\* Python str < str
RECURSIVE StrLess(_, _)
StrLess(a, b) ==
    IF b = <<>> THEN FALSE
    ELSE IF a = <<>> THEN TRUE
    ELSE IF Head(a) = Head(b) THEN StrLess(Tail(a), Tail(b))
    ELSE Rank(Head(a)) < Rank(Head(b))

\* Python a.startswith(p)
StartsWith(a, p) == Len(p) <= Len(a) /\ SubSeq(a, 1, Len(p)) = p

\* Python (sub in a)
Contains(a, sub) ==
    \E i \in 0..(Len(a) - Len(sub)) : SubSeq(a, i + 1, i + Len(sub)) = sub

Digits == {"0", "1", "2", "3", "4", "9"}
Whitespace == {" "}

\* Python s.strip()
RECURSIVE LStrip(_)
LStrip(s) == IF s # <<>> /\ Head(s) \in Whitespace THEN LStrip(Tail(s)) ELSE s

RECURSIVE RStrip(_)
RStrip(s) ==
    IF s # <<>> /\ s[Len(s)] \in Whitespace THEN RStrip(SubSeq(s, 1, Len(s) - 1)) ELSE s

Strip(s) == RStrip(LStrip(s))

\* End index of a match of _TAG_RE = r"<[^>]+>" starting at position i, or 0.
TagEnd(s, i) ==
    IF i + 2 <= Len(s) /\ s[i] = "<" /\ s[i + 1] # ">"
         /\ \E j \in (i + 2)..Len(s) : s[j] = ">"
    THEN CHOOSE j \in (i + 2)..Len(s) :
             s[j] = ">" /\ \A k \in (i + 2)..(j - 1) : s[k] # ">"
    ELSE 0

\* _TAG_RE.search(s)
TagSearch(s) == \E i \in 1..Len(s) : TagEnd(s, i) # 0

\* _TAG_RE.sub("", s): leftmost non-overlapping matches removed
RECURSIVE TagSubFrom(_, _)
TagSubFrom(s, i) ==
    IF i > Len(s) THEN <<>>
    ELSE IF TagEnd(s, i) # 0 THEN TagSubFrom(s, TagEnd(s, i) + 1)
    ELSE <<s[i]>> \o TagSubFrom(s, i + 1)

\* strip_xhtml; None is modelled as the empty string (both are falsy).  The
\* alphabet holds no HTML entity and no U+00A0, so unescape/replace keep s.
strip_xhtml(s) == IF s = <<>> THEN <<>> ELSE Strip(TagSubFrom(s, 1))

(***************************************************************************)
(* Linkrole selection                                                      *)
(***************************************************************************)

None == << "<None>" >>

TARGET_ELR_CODES ==
    { << "3", "1", "0", "0", "1", "0" >>,
      << "3", "2", "1", "0", "1", "0" >>,
      << "3", "4", "2", "0", "1", "0" >> }

\* re.match(r"^(\d{6})", def_text.strip()): the first six characters when
\* all six are digits; whatever follows them is not looked at.
extract_code_from_definition(def_text) ==
    IF def_text = <<>> THEN None
    ELSE LET t == Strip(def_text) IN
         IF Len(t) >= 6 /\ \A i \in 1..6 : t[i] \in Digits
         THEN SubSeq(t, 1, 6)
         ELSE None

is_target_elr(def_text) == extract_code_from_definition(def_text) \in TARGET_ELR_CODES

(***************************************************************************)
(* The document model (arelle ModelXbrl) as data                           *)
(*   concept : [prefix, localName, isAbstract]                             *)
(*   arc     : [from, to, order, preferredLabel]   (concept ids)           *)
(*   linkrole: [uri, definition, arcs, roots]      arcs/roots in the       *)
(*             order relset.modelRelationships / rootConcepts yield them   *)
(*   fact    : [concept, contextID, isStr, xValue]                         *)
(*   doc     : [linkroles, facts]  in linkRoleUris / model_xbrl.facts order*)
(***************************************************************************)

ConceptTable ==
    [ BSH    |-> [prefix |-> "jppfs_cor", localName |-> <<"BalanceSheet", "Heading">>,
                  isAbstract |-> TRUE],
      CFH    |-> [prefix |-> "jppfs_cor", localName |-> <<"CashFlows", "Heading">>,
                  isAbstract |-> TRUE],
      AXIS   |-> [prefix |-> "jppfs_cor",
                  localName |-> <<"Consolidated", "Or", "Non", "Consolidated", "Axis">>,
                  isAbstract |-> TRUE],
      CM     |-> [prefix |-> "jppfs_cor", localName |-> <<"Consolidated", "Member">>,
                  isAbstract |-> TRUE],
      NCM    |-> [prefix |-> "jppfs_cor", localName |-> <<"Non", "Consolidated", "Member">>,
                  isAbstract |-> TRUE],
      AA     |-> [prefix |-> "jppfs_cor", localName |-> <<"Assets", "Abstract">>,
                  isAbstract |-> TRUE],
      ASSETS |-> [prefix |-> "jppfs_cor", localName |-> <<"Assets">>,
                  isAbstract |-> FALSE],
      CASH   |-> [prefix |-> "jpcrp_cor", localName |-> <<"CashAndDeposits">>,
                  isAbstract |-> FALSE] ]

ConceptIds == DOMAIN ConceptTable

localName(c) == ConceptTable[c].localName
\* mutant: the abstract flag is read under a name the concept does not have
isAbstract_Misnamed(c) == FALSE

isAbstract(c) == ConceptTable[c].isAbstract

\* str(concept.qname): "prefix:localName"
StrQName(c) == <<ConceptTable[c].prefix, ":">> \o localName(c)

NoRole == ""
PreferredLabelRoles == {"total", "periodStart"}

\* concept.label(lang=..., preferredLabel=...): the label linkbase of the
\* filing.  CASH has no ja periodStart label, ASSETS has no ja label at all
\* and its total label is only markup.
label(c, lang, role) ==
    IF c = "ASSETS" /\ lang = "ja" /\ role = NoRole THEN <<>>
    ELSE IF c = "ASSETS" /\ role = "total" THEN <<"<", "b", ">">>
    ELSE IF c = "CASH" /\ lang = "ja" /\ role = "periodStart" THEN <<>>
    ELSE IF role = NoRole THEN <<"<", "b", ">">> \o localName(c) \o <<" ", "label", lang, " ">>
    ELSE localName(c) \o <<" ", role, lang>>

(***************************************************************************)
(* Contexts and the context-based classifier                               *)
(***************************************************************************)

AXIS_CANDIDATES ==
    { <<"Consolidated", "Or", "Non", "Consolidated", "Axis">>,
      <<"Consolidated", "And", "Non", "Consolidated", "Axis">> }

CYI    == <<"CurrentYear", "Instant">>
CYD_C  == <<"CurrentYear", "Duration", "_", "Consolidated", "Member">>
CYI_NC == <<"CurrentYear", "Instant", "_", "Non", "Consolidated", "Member">>
CYD_O  == <<"CurrentYear", "Duration", "_", "Other", "Member">>
P1YI_C == <<"Prior1Year", "Instant">>
CY_X   == <<"CurrentYear", "_", "x">>
X_CYD  == <<"x", "CurrentYear", "Duration">>

\* model_xbrl.contexts: contextID -> qnameDims, a sequence of
\* [dim (localName of the dimension), mem (localName of the member or None)]
\* in the order ctx.qnameDims.items() yields them.
Contexts ==
    (CYI    :> <<>>) @@
    (CYD_C  :> << [dim |-> <<"Consolidated", "Or", "Non", "Consolidated", "Axis">>,
                   mem |-> <<"Consolidated", "Member">>] >>) @@
    (CYI_NC :> << [dim |-> <<"Other", "Axis">>, mem |-> <<"Other", "Member">>],
                  [dim |-> <<"Consolidated", "Or", "Non", "Consolidated", "Axis">>,
                   mem |-> <<"Non", "Consolidated", "Member">>] >>) @@
    (CYD_O  :> << [dim |-> <<"Consolidated", "Or", "Non", "Consolidated", "Axis">>,
                   mem |-> <<"Other", "Member">>] >>) @@
    (P1YI_C :> << [dim |-> <<"Consolidated", "And", "Non", "Consolidated", "Axis">>,
                   mem |-> <<"Consolidated", "Member">>] >>) @@
    (CY_X   :> << [dim |-> <<"Consolidated", "And", "Non", "Consolidated", "Axis">>,
                   mem |-> None] >>) @@
    (X_CYD  :> << [dim |-> <<"Consolidated", "Or", "Non", "Consolidated", "Axis">>,
                   mem |-> <<"Consolidated", "Member">>] >>)

\* model_xbrl.contexts.get(contextID): the context, or None
ContextGet(contextID) ==
    IF contextID \in DOMAIN Contexts
    THEN [isNone |-> FALSE, qnameDims |-> Contexts[contextID]]
    ELSE [isNone |-> TRUE, qnameDims |-> <<>>]

RECURSIVE DimsStatus(_)
DimsStatus(dims) ==
    IF dims = <<>> THEN "Unknown"
    ELSE IF Head(dims).dim \in AXIS_CANDIDATES
         THEN IF Head(dims).mem = None THEN "Unknown"
              ELSE IF Head(dims).mem = <<"Consolidated", "Member">> THEN "Consolidated"
              ELSE IF Head(dims).mem = <<"Non", "Consolidated", "Member">>
                   THEN "NonConsolidated"
              ELSE "Unknown"
         ELSE DimsStatus(Tail(dims))

consolidation_from_context(ctx) ==
    IF ctx.isNone THEN "Unknown" ELSE DimsStatus(ctx.qnameDims)

(***************************************************************************)
(* Ordering of roots and children                                          *)
(*   a sort key is [num, str]: Python compares the tuple (float, str)      *)
(***************************************************************************)

KeyLess(k1, k2) == k1.num < k2.num \/ (k1.num = k2.num /\ StrLess(k1.str, k2.str))

\* sorted(items, key=...) is stable: x goes after every element not greater
\* than it.  items: sequence of [key, val].
RECURSIVE InsertSorted(_, _)
InsertSorted(sorted, x) ==
    IF sorted = <<>> THEN <<x>>
    ELSE IF KeyLess(x.key, Head(sorted).key) THEN <<x>> \o sorted
    ELSE <<Head(sorted)>> \o InsertSorted(Tail(sorted), x)

RECURSIVE SortedByKey(_)
SortedByKey(items) ==
    IF items = <<>> THEN <<>>
    ELSE InsertSorted(SortedByKey(SubSeq(items, 1, Len(items) - 1)), items[Len(items)])

Vals(items) == [i \in 1..Len(items) |-> items[i].val]

\* relset.fromModelObject(parent)
fromModelObject(arcs, parent) == SelectSeq(arcs, LAMBDA r : r.from = parent)

RECURSIVE MinOrder(_, _)
MinOrder(rels, default) ==
    IF rels = <<>> THEN default
    ELSE LET m == MinOrder(Tail(rels), Head(rels).order) IN
         IF Head(rels).order < m THEN Head(rels).order ELSE m

root_order_key(arcs, root) ==
    [num |-> MinOrder(fromModelObject(arcs, root), 0), str |-> StrQName(root)]

\* mutant: the arcs of parent as the relationship set enumerates them
iter_children_ordered_Unsorted(arcs, parent) == fromModelObject(arcs, parent)

\* mutant: the loop over the children ends after the first child
iter_children_ordered_FirstOnly(arcs, parent) ==
    LET rels == fromModelObject(arcs, parent)
        all  == Vals(SortedByKey([i \in 1..Len(rels) |->
                    [key |-> [num |-> rels[i].order, str |-> StrQName(rels[i].to)],
                     val |-> rels[i]]]))
    IN  IF all = <<>> THEN <<>> ELSE << all[1] >>

\* the arcs of parent sorted by (order, str(child qname)); each carries its
\* preferredLabel
iter_children_ordered(arcs, parent) ==
    LET rels == fromModelObject(arcs, parent) IN
    Vals(SortedByKey([i \in 1..Len(rels) |->
            [key |-> [num |-> rels[i].order, str |-> StrQName(rels[i].to)],
             val |-> rels[i]]]))

(***************************************************************************)
(* The presentation-based classifier                                       *)
(***************************************************************************)

\* d[k] = v on a Python dict (modelled as a function on its key set)
DictPut(d, k, v) == [x \in (DOMAIN d) \cup {k} |-> IF x = k THEN v ELSE d[x]]

\* d.get(k, default)
DictGet(d, k, default) == IF k \in DOMAIN d THEN d[k] ELSE default

EmptyDict == << >>

CONS_AXIS == <<"Consolidated", "Or", "Non", "Consolidated", "Axis">>

\* traverse(relationship, current_path, passed_axis) of
\* extract_consolidation_info; returns consolidation_paths after the call.
\* TraverseInner is its loop over relationshipset.modelRelationships from
\* index i on.
RECURSIVE traverse(_, _, _, _, _)
RECURSIVE TraverseInner(_, _, _, _, _, _)
traverse(rels, relationship, current_path, passed_axis, consolidation_paths) ==
    LET to_qname == localName(relationship.to)
        axis     == IF Contains(to_qname, <<"Axis">>) THEN to_qname ELSE passed_axis
        new_path == Append(current_path, to_qname)
        paths1   == IF Contains(to_qname, <<"Member">>) /\ axis = CONS_AXIS
                    THEN DictPut(consolidation_paths, current_path[1], new_path)
                    ELSE consolidation_paths
    IN  TraverseInner(rels, 1, to_qname, new_path, axis, paths1)

TraverseInner(rels, i, to_qname, new_path, axis, consolidation_paths) ==
    IF i > Len(rels) THEN consolidation_paths
    ELSE TraverseInner(rels, i + 1, to_qname, new_path, axis,
             IF localName(rels[i].from) = to_qname
             THEN traverse(rels, rels[i], new_path, axis, consolidation_paths)
             ELSE consolidation_paths)

\* the loop over one relationship set's modelRelationships, from index i on
RECURSIVE HeadingLoop(_, _, _)
HeadingLoop(rels, i, consolidation_paths) ==
    IF i > Len(rels) THEN consolidation_paths
    ELSE HeadingLoop(rels, i + 1,
             IF Contains(localName(rels[i].from), <<"Heading">>)
             THEN traverse(rels, rels[i], <<localName(rels[i].from)>>, None,
                           consolidation_paths)
             ELSE consolidation_paths)

\* the loop over linkRoleUris (every presentation linkrole, target or not)
RECURSIVE LinkroleLoop(_, _, _)
LinkroleLoop(linkroles, i, consolidation_paths) ==
    IF i > Len(linkroles) THEN consolidation_paths
    ELSE LinkroleLoop(linkroles, i + 1,
             HeadingLoop(linkroles[i].arcs, 1, consolidation_paths))

PathStatus(path) ==
    IF Contains(path[Len(path)], <<"Non", "Consolidated", "Member">>) THEN "NonConsolidated"
    ELSE IF Contains(path[Len(path)], <<"Consolidated", "Member">>) THEN "Consolidated"
    ELSE "Unknown"

extract_consolidation_info(doc) ==
    LET consolidation_paths == LinkroleLoop(doc.linkroles, 1, EmptyDict) IN
    [heading \in DOMAIN consolidation_paths |-> PathStatus(consolidation_paths[heading])]

(***************************************************************************)
(* The walker: one call of output_fact_with_hierarchy up to its loop over  *)
(* the children                                                            *)
(***************************************************************************)

SEP == " > "

\* sep.join(parts)
RECURSIVE Join(_, _)
Join(parts, sep) ==
    IF parts = <<>> THEN <<>>
    ELSE IF Len(parts) = 1 THEN parts[1]
    ELSE parts[1] \o <<sep>> \o Join(Tail(parts), sep)

\* s.split(sep)[0]
RECURSIVE SplitFirst(_, _)
SplitFirst(s, sep) ==
    IF s = <<>> \/ Head(s) = sep THEN <<>>
    ELSE <<Head(s)>> \o SplitFirst(Tail(s), sep)

\* s.split(sep)[-1]
RECURSIVE SplitLast(_, _)
SplitLast(s, sep) ==
    IF s = <<>> \/ s[Len(s)] = sep THEN <<>>
    ELSE SplitLast(SubSeq(s, 1, Len(s) - 1), sep) \o <<s[Len(s)]>>

Or2(a, b) == IF a # <<>> THEN a ELSE b

default_label_of(concept) == Or2(strip_xhtml(label(concept, "ja", NoRole)), StrQName(concept))

\* mutant: the status is looked up by the concept's own name
LrStatus_OwnName(current_qname_path, consolidation_info) ==
    LET own == SplitLast(current_qname_path, ":") IN
    DictGet(consolidation_info, own, "Unknown")

\* lr_status: the presentation-based status of the first element of the
\* qname path, namespace prefix removed
LrStatus(current_qname_path, consolidation_info) ==
    LET heading_qname == SplitFirst(current_qname_path, SEP)
        prefix_removed_heading_qname == SplitLast(heading_qname, ":")
    IN  DictGet(consolidation_info, prefix_removed_heading_qname, "Unknown")

CtxCons(fact) == consolidation_from_context(ContextGet(fact.contextID))

\* mutant: the presentation-based status takes precedence
EffectiveCons_HeadingFirst(ctx_cons, lr_status) ==
    IF lr_status # "Unknown" THEN lr_status ELSE ctx_cons

EffectiveCons(ctx_cons, lr_status) ==
    IF ctx_cons # "Unknown" THEN ctx_cons ELSE lr_status

\* mutant: the marker is searched anywhere in the id
IsCurrentYear_Anywhere(contextID) ==
    LET cid == IF contextID = None THEN <<>> ELSE contextID IN
    Contains(cid, <<"CurrentYear", "Duration">>)
        \/ Contains(cid, <<"CurrentYear", "Instant">>)

IsCurrentYear(contextID) ==
    LET cid == IF contextID = None THEN <<>> ELSE contextID IN
    StartsWith(cid, <<"CurrentYear", "Duration">>)
        \/ StartsWith(cid, <<"CurrentYear", "Instant">>)

HasMarkup(fact) == fact.isStr /\ TagSearch(fact.xValue)

\* mutant: any difference is a Mismatch, also against an Unknown
MismatchStatus_Loose(lr_status, ctx_cons) ==
    IF lr_status = ctx_cons THEN "Match"
    ELSE IF lr_status \in {"Consolidated", "NonConsolidated"}
              \/ ctx_cons \in {"Consolidated", "NonConsolidated"}
         THEN "Mismatch"
         ELSE "Unknown"

MismatchStatus(lr_status, ctx_cons) ==
    IF lr_status \in {"Consolidated", "NonConsolidated"}
         /\ ctx_cons \in {"Consolidated", "NonConsolidated"}
         /\ lr_status = ctx_cons
    THEN "Match"
    ELSE IF lr_status \in {"Consolidated", "NonConsolidated"}
              /\ ctx_cons \in {"Consolidated", "NonConsolidated"}
         THEN "Mismatch"
         ELSE "Unknown"

\* mutant: no seen-set check
PassesFilters_NoSeenCheck(fact, concept, lr_status, seen_qnames) ==
    /\ fact.concept = concept
    /\ EffectiveCons(CtxCons(fact), lr_status) = "Consolidated"
    /\ IsCurrentYear(fact.contextID)
    /\ ~HasMarkup(fact)

\* mutant: a non-consolidated fact is accepted when it comes first
PassesFilters_NoConsolidationCheck(fact, concept, lr_status, seen_qnames) ==
    /\ fact.concept = concept
    /\ IsCurrentYear(fact.contextID)
    /\ ~HasMarkup(fact)
    /\ StrQName(concept) \notin seen_qnames

\* mutant: a fact of undetermined status is let through
PassesFilters_UnknownAccepted(fact, concept, lr_status, seen_qnames) ==
    /\ fact.concept = concept
    /\ EffectiveCons(CtxCons(fact), lr_status) \in {"Consolidated", "Unknown"}
    /\ IsCurrentYear(fact.contextID)
    /\ ~HasMarkup(fact)
    /\ StrQName(concept) \notin seen_qnames

\* The filters of the fact loop, in the code's order; a fact that fails one
\* is skipped (continue).
PassesFilters(fact, concept, lr_status, seen_qnames) ==
    /\ fact.concept = concept
    /\ EffectiveCons(CtxCons(fact), lr_status) = "Consolidated"
    /\ IsCurrentYear(fact.contextID)
    /\ ~HasMarkup(fact)
    /\ StrQName(concept) \notin seen_qnames

\* mutant: the scan does not stop at the accepted fact, the last one wins
AcceptedFact_Last(facts, concept, lr_status, seen_qnames) ==
    IF \E i \in 1..Len(facts) : PassesFilters(facts[i], concept, lr_status, seen_qnames)
    THEN CHOOSE i \in 1..Len(facts) :
            /\ PassesFilters(facts[i], concept, lr_status, seen_qnames)
            /\ \A j \in (i + 1)..Len(facts) :
                   ~PassesFilters(facts[j], concept, lr_status, seen_qnames)
    ELSE 0

\* Index of the fact the loop accepts (it breaks after the first), or 0.
AcceptedFact(facts, concept, lr_status, seen_qnames) ==
    IF \E i \in 1..Len(facts) : PassesFilters(facts[i], concept, lr_status, seen_qnames)
    THEN CHOOSE i \in 1..Len(facts) :
            /\ PassesFilters(facts[i], concept, lr_status, seen_qnames)
            /\ \A j \in 1..(i - 1) :
                   ~PassesFilters(facts[j], concept, lr_status, seen_qnames)
    ELSE 0

\* append_fact_row: the period, decimals and unit columns are copied from
\* the fact and its context and are left out of the row here.
HeadingRow(default_label, preferred_label, qname, current_label_path, current_qname_path, linkrole_definition) ==
    [ qname |-> qname, default_label |-> default_label,
      preferred_label |-> preferred_label, label_path |-> current_label_path,
      qname_path |-> current_qname_path, linkrole_definition |-> linkrole_definition,
      value |-> <<>>, context_id |-> <<>>,
      consolidation_status |-> "Heading", match_status |-> "" ]

FactRow(fact, default_label, preferred_label, qname, current_label_path, current_qname_path, linkrole_definition, consolidation_status, mismatch_status) ==
    [ qname |-> qname, default_label |-> default_label,
      preferred_label |-> preferred_label, label_path |-> current_label_path,
      qname_path |-> current_qname_path, linkrole_definition |-> linkrole_definition,
      value |-> fact.xValue, context_id |-> fact.contextID,
      consolidation_status |-> consolidation_status, match_status |-> mismatch_status ]

\* The rows one call appends before it turns to the children.
HeadingRows(concept, default_label, preferred_label, qname, current_label_path, current_qname_path, linkrole_definition) ==
    IF isAbstract(concept)
    THEN << HeadingRow(default_label, preferred_label, qname, current_label_path,
                       current_qname_path, linkrole_definition) >>
    ELSE << >>

\* child_label of the children loop
ChildLabel(child, child_pref_role) ==
    IF child_pref_role # NoRole
    THEN Or2(strip_xhtml(label(child, "ja", child_pref_role)),
             Or2(strip_xhtml(label(child, "en", child_pref_role)), StrQName(child)))
    ELSE Or2(strip_xhtml(label(child, "ja", NoRole)),
             Or2(strip_xhtml(label(child, "en", NoRole)), StrQName(child)))

(***************************************************************************)
(* Bounded inputs: the filings the driver is run on                        *)
(***************************************************************************)

\* longest model_xbrl.facts enumerated exhaustively
MaxFacts == 2

Arc(from, to, order, preferredLabel) ==
    [from |-> from, to |-> to, order |-> order, preferredLabel |-> preferredLabel]

\* balance-sheet trees
BS_C ==
    << Arc("BSH", "AXIS", 1, NoRole), Arc("AXIS", "CM", 1, NoRole),
       Arc("BSH", "AA", 2, NoRole), Arc("AA", "CASH", 1, "periodStart"),
       Arc("AA", "ASSETS", 2, "total") >>
BS_NC ==
    << Arc("BSH", "AXIS", 1, NoRole), Arc("AXIS", "NCM", 1, NoRole),
       Arc("BSH", "AA", 2, NoRole), Arc("AA", "CASH", 1, NoRole) >>
BS_NONE ==
    << Arc("BSH", "AA", 1, NoRole), Arc("AA", "ASSETS", 2, NoRole),
       Arc("AA", "CASH", 1, "total") >>
\* both members under the axis; two children of BSH share their order
BS_BOTH ==
    << Arc("BSH", "AXIS", 1, NoRole), Arc("AXIS", "CM", 1, NoRole),
       Arc("AXIS", "NCM", 2, NoRole), Arc("BSH", "ASSETS", 2, NoRole),
       Arc("BSH", "CASH", 2, NoRole) >>
\* two arcs of one parent with the same order and child
BS_TIE ==
    << Arc("BSH", "AXIS", 1, NoRole), Arc("AXIS", "CM", 1, NoRole),
       Arc("BSH", "CASH", 2, "total"), Arc("BSH", "CASH", 2, "periodStart"),
       Arc("BSH", "AA", 3, NoRole), Arc("AA", "ASSETS", 1, NoRole) >>
\* AA and CASH reachable along two paths
BS_DAG ==
    << Arc("BSH", "AA", 1, NoRole), Arc("BSH", "AXIS", 2, NoRole),
       Arc("AXIS", "CM", 1, NoRole), Arc("CM", "AA", 1, "total"),
       Arc("AA", "CASH", 1, NoRole), Arc("BSH", "CASH", 3, "total") >>
\* two roots; the one with the smaller name has the larger minimum order
BS_ROOTS ==
    << Arc("AA", "ASSETS", 3, NoRole), Arc("AA", "CASH", 2, NoRole),
       Arc("BSH", "AXIS", 1, NoRole), Arc("AXIS", "CM", 1, NoRole) >>

\* cash-flow trees
CF_C ==
    << Arc("CFH", "AXIS", 1, NoRole), Arc("AXIS", "CM", 1, NoRole),
       Arc("CFH", "CASH", 2, "periodStart") >>
CF_NONE ==
    << Arc("CFH", "CASH", 1, NoRole), Arc("CFH", "AA", 2, NoRole),
       Arc("AA", "ASSETS", 1, NoRole) >>
CF_BSH == << Arc("BSH", "CASH", 1, NoRole), Arc("BSH", "ASSETS", 2, "total") >>
CF_AA  == << Arc("AA", "CASH", 1, NoRole), Arc("AA", "ASSETS", 2, NoRole) >>
\* the balance-sheet heading again, this time over the non-consolidated member
CF_BSH_NC ==
    << Arc("BSH", "AXIS", 1, NoRole), Arc("AXIS", "NCM", 1, NoRole),
       Arc("BSH", "CASH", 2, NoRole) >>

\* trees with a cycle: below a root that is no heading, below a heading, and
\* with no root at all
CYC_ITEMS ==
    << Arc("AA", "ASSETS", 1, NoRole), Arc("ASSETS", "CASH", 1, NoRole),
       Arc("CASH", "ASSETS", 1, NoRole) >>
CYC_HEAD ==
    << Arc("BSH", "AA", 1, NoRole), Arc("AA", "ASSETS", 1, NoRole),
       Arc("ASSETS", "AA", 1, NoRole) >>
CYC_NOROOT == << Arc("AA", "ASSETS", 1, NoRole), Arc("ASSETS", "AA", 1, NoRole) >>
\* a chain of seven nested levels
DEEP ==
    << Arc("AA", "ASSETS", 1, NoRole), Arc("ASSETS", "CASH", 1, NoRole),
       Arc("CASH", "AXIS", 1, NoRole), Arc("AXIS", "CM", 1, NoRole),
       Arc("CM", "NCM", 1, NoRole), Arc("NCM", "CFH", 1, NoRole) >>

\* linkrole definitions as the taxonomy writes them
D_310010_B == << "3", "1", "0", "0", "1", "0", " ", "B" >>
D_310010_S == << "3", "1", "0", "0", "1", "0", " ", "S" >>
D_342010_B == << "3", "4", "2", "0", "1", "0", " ", "B" >>
D_321010_B == << "3", "2", "1", "0", "1", "0", " ", "B" >>
D_7DIGITS  == << "3", "1", "0", "0", "1", "0", "0", " ", "B" >>
D_5DIGITS  == << "3", "1", "0", "0", "1", " ", "B" >>
D_NODIGIT  == << "B", " ", "3", "1", "0", "0", "1", "0" >>
D_999999_B == << "9", "9", "9", "9", "9", "9", " ", "B" >>
D_MARKUP   == << "<", "b", ">", " ", "3", "4", "2", "0", "1", "0", "<", "b", ">", " ", "B", " " >>
D_ABSENT   == << >>

Definitions ==
    { D_310010_B, D_310010_S, D_342010_B, D_321010_B, D_7DIGITS, D_5DIGITS,
      D_NODIGIT, D_999999_B, D_MARKUP, D_ABSENT }

Fact(concept, contextID, isStr, xValue) ==
    [concept |-> concept, contextID |-> contextID, isStr |-> isStr, xValue |-> xValue]

FactPool ==
    { Fact("CASH", CYI, FALSE, <<"1">>),
      Fact("CASH", CYI_NC, FALSE, <<"2">>),
      Fact("CASH", CYD_C, FALSE, <<"3">>),
      Fact("CASH", P1YI_C, FALSE, <<"4">>),
      Fact("CASH", X_CYD, FALSE, <<"1", "0">>),
      Fact("ASSETS", CYD_C, TRUE, <<"<", "b", ">", "1">>),
      Fact("ASSETS", CYD_C, TRUE, <<"<", ">", "x">>),
      Fact("ASSETS", None, FALSE, <<"9">>),
      Fact("ASSETS", CYD_O, FALSE, <<"0">>),
      Fact("ASSETS", CY_X, FALSE, <<"2", "0">>) }

\* every enumeration of up to n distinct facts of the pool
RECURSIVE FactLists(_)
FactLists(n) ==
    IF n = 0 THEN { <<>> }
    ELSE LET shorter == FactLists(n - 1) IN
         shorter \cup { Append(l, f) : l \in { x \in shorter : Len(x) = n - 1 },
                                         f \in FactPool }

DistinctFactLists(n) ==
    { l \in FactLists(n) : \A i, j \in 1..Len(l) : i # j => l[i] # l[j] }

SampleFactLists ==
    { << Fact("CASH", CYI, FALSE, <<"1">>), Fact("ASSETS", CYD_C, TRUE, <<"<", ">", "x">>) >>,
      << Fact("ASSETS", CYD_O, FALSE, <<"0">>), Fact("CASH", CYD_C, FALSE, <<"3">>),
         Fact("CASH", CYI, FALSE, <<"1">>) >>,
      << Fact("ASSETS", CYD_C, TRUE, <<"<", "b", ">", "1">>),
         Fact("ASSETS", CYD_O, FALSE, <<"0">>), Fact("CASH", CYD_C, FALSE, <<"3">>),
         Fact("CASH", CYI, FALSE, <<"1">>) >> }

\* relset.rootConcepts: the concepts with an outgoing and no incoming arc,
\* here in the order of their first outgoing arc
RECURSIVE RootsOf(_, _, _)
RootsOf(arcs, i, acc) ==
    IF i > Len(arcs) THEN acc
    ELSE LET c == arcs[i].from IN
         RootsOf(arcs, i + 1,
             IF (\A k \in 1..Len(arcs) : arcs[k].to # c)
                  /\ (\A k \in 1..Len(acc) : acc[k] # c)
             THEN Append(acc, c) ELSE acc)

Linkrole(uri, definition, arcs) ==
    [uri |-> uri, definition |-> definition, arcs |-> arcs, roots |-> RootsOf(arcs, 1, <<>>)]

Doc(d1, arcs1, d2, arcs2, facts) ==
    [linkroles |-> << Linkrole("role/1", d1, arcs1), Linkrole("role/2", d2, arcs2) >>,
     facts |-> facts]

Reverse(s) == [i \in 1..Len(s) |-> s[Len(s) + 1 - i]]

\* The same filing as the document model may enumerate it on another load.
Reenumerate(doc, how) ==
    CASE how = "same" -> doc
      [] how = "uris" -> [doc EXCEPT !.linkroles = Reverse(@)]
      [] how = "arcs" ->
            [doc EXCEPT !.linkroles =
                [i \in 1..Len(@) |-> [@[i] EXCEPT !.arcs = Reverse(@)]]]
      [] how = "roots" ->
            [doc EXCEPT !.linkroles =
                [i \in 1..Len(@) |-> [@[i] EXCEPT !.roots = Reverse(@)]]]

\* every pair of definitions on fixed trees
SelectionDocs ==
    { Doc(d1, BS_C, d2, CF_NONE, l) : d1 \in Definitions, d2 \in Definitions,
                                      l \in { x \in SampleFactLists : Len(x) = 2 } }

\* every short fact list on the common trees
FactDocs ==
    { Doc(D_310010_B, a1, D_342010_B, a2, l) :
        a1 \in {BS_C, BS_NC, BS_NONE}, a2 \in {CF_C, CF_NONE},
        l \in DistinctFactLists(MaxFacts) }

\* every tree shape, with and without identical definitions
ShapeDocs ==
    { Doc(D_310010_B, a1, d2, a2, l) :
        a1 \in {BS_C, BS_BOTH, BS_TIE, BS_DAG, BS_ROOTS},
        d2 \in {D_342010_B, D_310010_B},
        a2 \in {CF_C, CF_NONE, CF_BSH, CF_AA, CF_BSH_NC},
        l \in SampleFactLists }

\* two different filings, one parsed before and after the other
InterleavedDocs ==
    { << d, e, d >> :
        d \in { Doc(D_310010_B, a1, D_342010_B, CF_C, l) :
                   a1 \in {BS_C, BS_ROOTS}, l \in SampleFactLists },
        e \in { Doc(D_310010_B, BS_DAG, D_342010_B, a2, l) :
                   a2 \in {CF_AA, CF_NONE}, l \in { x \in SampleFactLists : Len(x) = 3 } } }

\* filings with a cyclic or a deep tree, in a target linkrole or in another
CycleDocs ==
    { Doc(d1, a1, D_342010_B, CF_C, l) :
        d1 \in {D_310010_B, D_999999_B},
        a1 \in {CYC_ITEMS, CYC_HEAD, CYC_NOROOT, DEEP},
        l \in { x \in SampleFactLists : Len(x) = 3 } }

\* outputs/*.zip as extract_xbrl_from_zips returns them
FilingLists ==
    { <<d>> : d \in FactDocs }
    \cup { <<d>> : d \in CycleDocs }
    \cup InterleavedDocs
    \cup { <<d, Reenumerate(d, "uris")>> : d \in SelectionDocs }
    \cup { <<d, Reenumerate(d, how)>> :
             d \in ShapeDocs, how \in {"same", "uris", "arcs", "roots"} }

(***************************************************************************)
(* edinet_tools.filter_by_codes                                            *)
(*   doc    : a dict, here a function from its keys to strings or None     *)
(*   filter : [isStr, val]  a str (val its characters) or a list of str    *)
(***************************************************************************)

StrArg(s)   == [isStr |-> TRUE, val |-> s]
ListArg(l)  == [isStr |-> FALSE, val |-> l]

\* doc.get(key)
DocGet(doc, key) == IF key \in DOMAIN doc THEN doc[key] ELSE None

\* [doc[key] for doc in docs if key in doc and doc[key] is not None]
RECURSIVE AllCodes(_, _)
AllCodes(docs, key) ==
    IF docs = <<>> THEN <<>>
    ELSE (IF key \in DOMAIN Head(docs) /\ Head(docs)[key] # None
          THEN << Head(docs)[key] >> ELSE <<>>)
         \o AllCodes(Tail(docs), key)

\* mutant: a str filter is used as it is
NormalizeCodes_NoWrap(codes, docs, key) ==
    IF Len(codes.val) = 0 THEN ListArg(AllCodes(docs, key))
    ELSE codes

\* lines 29-37 and 39-47: an empty filter stands for every code present in
\* docs, a str becomes a one-element list
NormalizeCodes(codes, docs, key) ==
    IF Len(codes.val) = 0 THEN ListArg(AllCodes(docs, key))
    ELSE IF codes.isStr THEN ListArg(<< codes.val >>)
    ELSE codes

\* x in codes: an element of a list, a substring of a str
CodeIn(x, codes) ==
    IF codes.isStr THEN x # None /\ Contains(codes.val, x)
    ELSE \E i \in 1..Len(codes.val) : codes.val[i] = x

filter_by_codes(docs, edinet_codes, doc_type_codes) ==
    LET ecs == NormalizeCodes(edinet_codes, docs, "edinetCode")
        dcs == NormalizeCodes(doc_type_codes, docs, "docTypeCode")
    IN  SelectSeq(docs, LAMBDA doc :
            /\ CodeIn(DocGet(doc, "edinetCode"), ecs)
            /\ CodeIn(DocGet(doc, "docTypeCode"), dcs))

\* longest docs list
MaxDocs == 2

E00001 == << "E0000", "1" >>
E0000  == << "E0000" >>
T120   == << "1", "2", "0" >>
T130   == << "1", "3", "0" >>
Absent == << "<absent>" >>

\* document metadata as the EDINET API lists it; a key may be missing or null
MakeDoc(e, t) ==
    [ k \in {"name"} \cup (IF e = Absent THEN {} ELSE {"edinetCode"})
                     \cup (IF t = Absent THEN {} ELSE {"docTypeCode"}) |->
        IF k = "name" THEN << "doc" >> ELSE IF k = "edinetCode" THEN e ELSE t ]

DocPool ==
    { MakeDoc(e, t) : e \in {E00001, E0000, None, Absent}, t \in {T120, T130, Absent} }

RECURSIVE DocLists(_)
DocLists(n) ==
    IF n = 0 THEN { <<>> }
    ELSE LET shorter == DocLists(n - 1) IN
         shorter \cup { Append(l, d) : l \in { x \in shorter : Len(x) = n - 1 },
                                         d \in DocPool }

EdinetFilters ==
    { StrArg(E00001), ListArg(<< E00001 >>), ListArg(<< E0000 >>),
      ListArg(<< E0000, E00001 >>), StrArg(<<>>), ListArg(<<>>) }

DocTypeFilters ==
    { StrArg(T130), ListArg(<< T130 >>), ListArg(<< T120, T130 >>), ListArg(<<>>) }

(***************************************************************************)
(* State                                                                   *)
(***************************************************************************)

VARIABLES
    filings,              \* generate_fs.main: the filings to parse, in order
    fidx,                 \* index of the filing the loop of main is at
    aggregated,           \* generate_fs.main: aggregated
    returned,             \* history: the row list each parse_xbrl call returned
    pc,                   \* "main" | "walk" | "error", or "filter" | "filtered"
    consolidation_info,   \* parse_xbrl locals ...
    targets,              \* sorted targets not walked yet
    relset,               \* arcs of the linkrole being walked
    linkrole_definition,
    roots,                \* sorted roots of relset not walked yet
    rows,
    preferred_label_dict,
    seen_qnames,
    stack,                \* active calls of output_fact_with_hierarchy
    visited,              \* history: the concepts the calls of this parse were made on
    arg_docs,             \* filter_by_codes: the arguments of the call ...
    arg_edinet_codes,
    arg_doc_type_codes,
    result                \* ... and what it returned

filter_vars == << arg_docs, arg_edinet_codes, arg_doc_type_codes, result >>

vars == << filings, fidx, aggregated, returned, pc, consolidation_info, targets,
           relset, linkrole_definition, roots, rows, preferred_label_dict,
           seen_qnames, stack, visited, filter_vars >>

model_xbrl == filings[fidx]

Init ==
    /\ filings \in FilingLists
    /\ fidx = 1
    /\ aggregated = <<>>
    /\ returned = <<>>
    /\ pc = "main"
    /\ consolidation_info = EmptyDict
    /\ targets = <<>>
    /\ relset = <<>>
    /\ linkrole_definition = <<>>
    /\ roots = <<>>
    /\ rows = <<>>
    /\ preferred_label_dict = EmptyDict
    /\ seen_qnames = {}
    /\ stack = <<>>
    /\ visited = <<>>
    /\ arg_docs = <<>>
    /\ arg_edinet_codes = ListArg(<<>>)
    /\ arg_doc_type_codes = ListArg(<<>>)
    /\ result = <<>>

(***************************************************************************)
(* parse_xbrl                                                              *)
(***************************************************************************)

\* the targets list in linkRoleUris order
RECURSIVE SelectTargets(_, _)
SelectTargets(linkroles, i) ==
    IF i > Len(linkroles) THEN <<>>
    ELSE LET definition == strip_xhtml(linkroles[i].definition) IN
         (IF is_target_elr(definition)
          THEN << [code |-> extract_code_from_definition(definition),
                   uri |-> linkroles[i].uri, definition |-> definition] >>
          ELSE <<>>)
         \o SelectTargets(linkroles, i + 1)

\* sorted(targets, key=lambda t: (t[0], t[2]))
TargetKey(t) == [num |-> 0, str |-> t.code \o t.definition]

\* mutant: the targets in linkRoleUris order
SortedTargets_Unsorted(doc) == SelectTargets(doc.linkroles, 1)

SortedTargets(doc) ==
    LET ts == SelectTargets(doc.linkroles, 1) IN
    Vals(SortedByKey([i \in 1..Len(ts) |-> [key |-> TargetKey(ts[i]), val |-> ts[i]]]))

\* model_xbrl.relationshipSet(PARENT_CHILD_ARCROLE, linkrole=uri)
RelationshipSet(doc, uri) ==
    LET i == CHOOSE i \in 1..Len(doc.linkroles) : doc.linkroles[i].uri = uri IN
    doc.linkroles[i]

SortedRoots(lr) ==
    Vals(SortedByKey([i \in 1..Len(lr.roots) |->
            [key |-> root_order_key(lr.arcs, lr.roots[i]), val |-> lr.roots[i]]]))

\* mutant: the map outlives the call (a module-level dict)
NewPreferredLabelDict_Global == preferred_label_dict

\* line 331: preferred_label_dict: dict = {}
NewPreferredLabelDict == EmptyDict

\* mutant: the set outlives the call (a module-level set)
NewSeenQnames_Global == seen_qnames

\* line 332: seen_qnames: set[str] = set()
NewSeenQnames == {}

\* the deepest nesting of calls the interpreter allows before it raises
\* RecursionError (sys.getrecursionlimit(), scaled down)
MaxDepth == 6

\* nesting of the calls a recursion over arcs makes when started on concept
\* c, counted up to budget
RECURSIVE Deepest(_, _, _)
Deepest(arcs, c, budget) ==
    IF budget = 0 THEN 0
    ELSE LET below == { Deepest(arcs, arcs[i].to, budget - 1) :
                          i \in { k \in 1..Len(arcs) : arcs[k].from = c } }
         IN  1 + (IF below = {} THEN 0
                  ELSE CHOOSE m \in below : \A x \in below : x <= m)

\* traverse of extract_consolidation_info nests deeper than the interpreter
\* allows: it keeps no visited set and follows every arc of every linkrole
\* from a concept named ...Heading...
TraverseOverflows(doc) ==
    \E n \in 1..Len(doc.linkroles) :
        LET rels == doc.linkroles[n].arcs IN
        \E i \in 1..Len(rels) :
            /\ Contains(localName(rels[i].from), <<"Heading">>)
            /\ Deepest(rels, rels[i].to, MaxDepth + 1) > MaxDepth

\* lines 306-319: extract_consolidation_info raises RecursionError, which
\* nothing catches
TraverseRecursionError ==
    /\ pc = "main"
    /\ fidx <= Len(filings)
    /\ TraverseOverflows(model_xbrl)
    /\ pc' = "error"
    /\ consolidation_info' = EmptyDict
    /\ targets' = <<>>
    /\ rows' = <<>>
    /\ preferred_label_dict' = EmptyDict
    /\ seen_qnames' = {}
    /\ relset' = <<>>
    /\ linkrole_definition' = <<>>
    /\ roots' = <<>>
    /\ stack' = <<>>
    /\ visited' = <<>>
    /\ UNCHANGED filter_vars
    /\ UNCHANGED << filings, fidx, aggregated, returned >>

\* lines 306-332: load, classify, select targets, fresh rows / dict / set
ParseBegin ==
    /\ pc = "main"
    /\ fidx <= Len(filings)
    /\ ~TraverseOverflows(model_xbrl)
    /\ visited' = <<>>
    /\ consolidation_info' = extract_consolidation_info(model_xbrl)
    /\ targets' = SortedTargets(model_xbrl)
    /\ rows' = <<>>
    /\ preferred_label_dict' = NewPreferredLabelDict
    /\ seen_qnames' = NewSeenQnames
    /\ relset' = <<>>
    /\ linkrole_definition' = <<>>
    /\ roots' = <<>>
    /\ stack' = <<>>
    /\ pc' = "walk"
    /\ UNCHANGED filter_vars
    /\ UNCHANGED << filings, fidx, aggregated, returned >>

\* lines 335-337: the next target linkrole
NextTarget ==
    /\ pc = "walk"
    /\ UNCHANGED visited
    /\ stack = <<>>
    /\ roots = <<>>
    /\ targets # <<>>
    /\ LET lr == RelationshipSet(model_xbrl, Head(targets).uri) IN
         /\ relset' = lr.arcs
         /\ roots' = SortedRoots(lr)
    /\ linkrole_definition' = Head(targets).definition
    /\ targets' = Tail(targets)
    /\ UNCHANGED filter_vars
    /\ UNCHANGED << filings, fidx, aggregated, returned, pc, consolidation_info, rows,
                    preferred_label_dict, seen_qnames, stack >>

\* lines 206-272 of a call output_fact_with_hierarchy(concept, path,
\* qname_path) made with preferred-label map pld: the rows appended, the
\* seen-set afterwards and the frame left waiting on the children loop
Visit(concept, path, qname_path, pld) ==
    LET default_label      == default_label_of(concept)
        preferred_label    == DictGet(pld, StrQName(concept), default_label)
        qname              == StrQName(concept)
        current_label_path == Join(Append(path, preferred_label), SEP)
        current_qname_path == Join(Append(qname_path, qname), SEP)
        lr_status          == LrStatus(current_qname_path, consolidation_info)
        k                  == AcceptedFact(model_xbrl.facts, concept, lr_status, seen_qnames)
        fact               == model_xbrl.facts[k]
        ctx_cons           == CtxCons(fact)
    IN  [ rows |->
            HeadingRows(concept, default_label, preferred_label, qname,
                        current_label_path, current_qname_path, linkrole_definition)
            \o (IF k = 0 THEN <<>>
                ELSE << FactRow(fact, default_label, preferred_label, qname,
                                current_label_path, current_qname_path,
                                linkrole_definition,
                                EffectiveCons(ctx_cons, lr_status),
                                MismatchStatus(lr_status, ctx_cons)) >>),
          seen |-> IF k = 0 THEN seen_qnames ELSE seen_qnames \cup {qname},
          frame |-> [ concept |-> concept, path |-> path, qname_path |-> qname_path,
                      preferred_label |-> preferred_label, qname |-> qname,
                      children |-> iter_children_ordered(relset, concept) ] ]

\* lines 338-342: parse_xbrl calls the walker on the next root
CallRoot ==
    /\ pc = "walk"
    /\ stack = <<>>
    /\ roots # <<>>
    /\ visited' = Append(visited, Head(roots))
    /\ LET v == Visit(Head(roots), <<>>, <<>>, preferred_label_dict) IN
         /\ rows' = rows \o v.rows
         /\ seen_qnames' = v.seen
         /\ stack' = << v.frame >>
    /\ roots' = Tail(roots)
    /\ UNCHANGED filter_vars
    /\ UNCHANGED << filings, fidx, aggregated, returned, pc, consolidation_info, targets,
                    relset, linkrole_definition, preferred_label_dict >>

\* lines 275-292: the children loop takes its next arc and recurses
CallChild ==
    /\ pc = "walk"
    /\ stack # <<>>
    /\ stack[Len(stack)].children # <<>>
    /\ Len(stack) < MaxDepth
    /\ visited' = Append(visited, Head(stack[Len(stack)].children).to)
    /\ LET top   == stack[Len(stack)]
           r     == Head(top.children)
           child == r.to
           pld   == DictPut(preferred_label_dict, StrQName(child),
                            ChildLabel(child, r.preferredLabel))
           v     == Visit(child, Append(top.path, top.preferred_label),
                          Append(top.qname_path, top.qname), pld)
       IN  /\ preferred_label_dict' = pld
           /\ rows' = rows \o v.rows
           /\ seen_qnames' = v.seen
           /\ stack' = Append([stack EXCEPT ![Len(stack)].children = Tail(@)], v.frame)
    /\ UNCHANGED filter_vars
    /\ UNCHANGED << filings, fidx, aggregated, returned, pc, consolidation_info, targets,
                    relset, linkrole_definition, roots >>

\* line 288 at the deepest nesting the interpreter allows: the call raises
\* RecursionError, which nothing catches
WalkRecursionError ==
    /\ pc = "walk"
    /\ stack # <<>>
    /\ stack[Len(stack)].children # <<>>
    /\ Len(stack) = MaxDepth
    /\ pc' = "error"
    /\ UNCHANGED << filings, fidx, aggregated, returned, consolidation_info, targets,
                    relset, linkrole_definition, roots, rows, preferred_label_dict,
                    seen_qnames, stack, visited, filter_vars >>

\* the children loop is exhausted: the call returns
Return ==
    /\ pc = "walk"
    /\ UNCHANGED visited
    /\ stack # <<>>
    /\ stack[Len(stack)].children = <<>>
    /\ stack' = SubSeq(stack, 1, Len(stack) - 1)
    /\ UNCHANGED filter_vars
    /\ UNCHANGED << filings, fidx, aggregated, returned, pc, consolidation_info, targets,
                    relset, linkrole_definition, roots, rows, preferred_label_dict,
                    seen_qnames >>

\* line 345 and generate_fs.main lines 29-32: parse_xbrl returns its rows,
\* main extends aggregated and moves to the next filing
ParseReturn ==
    /\ pc = "walk"
    /\ UNCHANGED visited
    /\ stack = <<>>
    /\ roots = <<>>
    /\ targets = <<>>
    /\ aggregated' = aggregated \o rows
    /\ returned' = Append(returned, rows)
    /\ fidx' = fidx + 1
    /\ pc' = "main"
    /\ UNCHANGED filter_vars
    /\ UNCHANGED << filings, consolidation_info, targets, relset, linkrole_definition,
                    roots, rows, preferred_label_dict, seen_qnames, stack >>

Next ==
    \/ ParseBegin \/ TraverseRecursionError
    \/ NextTarget \/ CallRoot \/ CallChild \/ WalkRecursionError \/ Return
    \/ ParseReturn

Spec == Init /\ [][Next]_vars

(***************************************************************************)
(* A call of filter_by_codes on listed document metadata                   *)
(***************************************************************************)

InitFilter ==
    /\ arg_docs \in DocLists(MaxDocs)
    /\ arg_edinet_codes \in EdinetFilters
    /\ arg_doc_type_codes \in DocTypeFilters
    /\ result = <<>>
    /\ pc = "filter"
    /\ filings = <<>>
    /\ fidx = 1
    /\ aggregated = <<>>
    /\ returned = <<>>
    /\ consolidation_info = EmptyDict
    /\ targets = <<>>
    /\ relset = <<>>
    /\ linkrole_definition = <<>>
    /\ roots = <<>>
    /\ rows = <<>>
    /\ preferred_label_dict = EmptyDict
    /\ seen_qnames = {}
    /\ stack = <<>>
    /\ visited = <<>>

CallFilterByCodes ==
    /\ pc = "filter"
    /\ result' = filter_by_codes(arg_docs, arg_edinet_codes, arg_doc_type_codes)
    /\ pc' = "filtered"
    /\ UNCHANGED << arg_docs, arg_edinet_codes, arg_doc_type_codes >>
    /\ UNCHANGED << filings, fidx, aggregated, returned, consolidation_info, targets,
                    relset, linkrole_definition, roots, rows, preferred_label_dict,
                    seen_qnames, stack, visited >>

NextFilter == CallFilterByCodes

SpecFilter == InitFilter /\ [][NextFilter]_vars

(***************************************************************************)
(* Vocabulary of the properties                                            *)
(***************************************************************************)

IsFactRow(r) == r.consolidation_status # "Heading"
IsHeadingRow(r) == r.consolidation_status = "Heading"

\* the linkroles of doc that are targets, in enumeration order
TargetLinkroles(doc) ==
    SelectSeq(doc.linkroles, LAMBDA lr : is_target_elr(strip_xhtml(lr.definition)))

\* concepts reachable from the set S along at most n arcs
RECURSIVE Reach(_, _, _)
Reach(arcs, S, n) ==
    IF n = 0 THEN S
    ELSE Reach(arcs, S \cup { arcs[i].to : i \in { k \in 1..Len(arcs) : arcs[k].from \in S } },
               n - 1)

ReachableIn(lr, root) == Reach(lr.arcs, {root}, Len(lr.arcs))

Range(s) == { s[i] : i \in 1..Len(s) }

\* concepts the walk of linkrole lr visits
VisitedIn(lr) == UNION { ReachableIn(lr, root) : root \in Range(lr.roots) }

\* number of arc paths from a root of lr to concept c (lr acyclic)
RECURSIVE PathsTo(_, _)
RECURSIVE PathsVia(_, _, _)
PathsTo(lr, c) == (IF c \in Range(lr.roots) THEN 1 ELSE 0) + PathsVia(lr, c, 1)

PathsVia(lr, c, i) ==
    IF i > Len(lr.arcs) THEN 0
    ELSE (IF lr.arcs[i].to = c THEN PathsTo(lr, lr.arcs[i].from) ELSE 0)
         + PathsVia(lr, c, i + 1)

RECURSIVE SumPaths(_, _)
SumPaths(lrs, c) == IF lrs = <<>> THEN 0 ELSE PathsTo(Head(lrs), c) + SumPaths(Tail(lrs), c)

\* the filing parse_xbrl call number k worked on
FilingOf(k) == filings[k]

(***************************************************************************)
(* C1  At most one fact per concept: in the rows of one parse_xbrl call no *)
(* two Fact rows carry the same qualified name, whatever the trees and     *)
(* facts, also when the concept sits under several parents or in several   *)
(* target linkroles.                                                       *)
(***************************************************************************)
NoDuplicateFactRows(rs) ==
    \A i, j \in 1..Len(rs) :
        (i < j /\ IsFactRow(rs[i]) /\ IsFactRow(rs[j])) => rs[i].qname # rs[j].qname

C1_AtMostOneFactPerConcept ==
    /\ NoDuplicateFactRows(rows)
    /\ \A k \in 1..Len(returned) : NoDuplicateFactRows(returned[k])

\* a finished parse of a filing with CashAndDeposits in two target linkroles
\* and two facts of it that pass the filters, one Fact row emitted
C1_Witness ==
    /\ Len(returned) >= 1
    /\ LET d == FilingOf(1) IN
         /\ Cardinality({ i \in 1..Len(d.linkroles) :
                 /\ is_target_elr(strip_xhtml(d.linkroles[i].definition))
                 /\ "CASH" \in VisitedIn(d.linkroles[i]) }) >= 2
         /\ Cardinality({ i \in 1..Len(d.facts) :
                 /\ d.facts[i].concept = "CASH"
                 /\ d.facts[i].contextID \in {CYI, CYD_C} }) = 2
    /\ Cardinality({ i \in 1..Len(returned[1]) :
            IsFactRow(returned[1][i]) /\ returned[1][i].qname = StrQName("CASH") }) = 1
    /\ consolidation_info = (<<"BalanceSheet", "Heading">> :> "Consolidated")
                            @@ (<<"CashFlows", "Heading">> :> "Consolidated")

(***************************************************************************)
(* C2  Heading completeness.  As claimed: every abstract concept reachable *)
(* from a root of a target linkrole has exactly one Heading row in the     *)
(* output of parse_xbrl.                                                   *)
(***************************************************************************)
HeadingCount(rs, c) ==
    Cardinality({ i \in 1..Len(rs) : IsHeadingRow(rs[i]) /\ rs[i].qname = StrQName(c) })

ReachableAbstract(doc) ==
    { c \in ConceptIds :
        /\ ConceptTable[c].isAbstract
        /\ \E i \in 1..Len(doc.linkroles) :
              /\ is_target_elr(strip_xhtml(doc.linkroles[i].definition))
              /\ c \in VisitedIn(doc.linkroles[i]) }

C2_ExactlyOneHeading ==
    \A k \in 1..Len(returned) :
        \A c \in ReachableAbstract(FilingOf(k)) : HeadingCount(returned[k], c) = 1

(***************************************************************************)
(* C2 as amended: every such concept has at least one Heading row, namely  *)
(* one for each arc path by which a root of a target linkrole reaches it.  *)
(***************************************************************************)
C2_OneHeadingPerPath ==
    \A k \in 1..Len(returned) :
        \A c \in ReachableAbstract(FilingOf(k)) :
            /\ HeadingCount(returned[k], c) >= 1
            /\ HeadingCount(returned[k], c) = SumPaths(TargetLinkroles(FilingOf(k)), c)

\* a finished parse in which AssetsAbstract is reached along three paths
C2_Witness ==
    /\ Len(returned) >= 1
    /\ "AA" \in ReachableAbstract(FilingOf(1))
    /\ SumPaths(TargetLinkroles(FilingOf(1)), "AA") = 3
    /\ HeadingCount(returned[1], "AA") = 3

(***************************************************************************)
(* Two loads of one filing that differ only in enumeration order           *)
(***************************************************************************)

IsPermutation(s, t) ==
    /\ Len(s) = Len(t)
    /\ \A x \in Range(s) \cup Range(t) :
          Cardinality({ i \in 1..Len(s) : s[i] = x })
              = Cardinality({ i \in 1..Len(t) : t[i] = x })

\* d2 is d1 with the arcs and the roots of its linkroles enumerated in
\* another order
ArcRootReenumeration(d1, d2) ==
    /\ d1.facts = d2.facts
    /\ Len(d1.linkroles) = Len(d2.linkroles)
    /\ \A i \in 1..Len(d1.linkroles) :
          /\ d1.linkroles[i].uri = d2.linkroles[i].uri
          /\ d1.linkroles[i].definition = d2.linkroles[i].definition
          /\ IsPermutation(d1.linkroles[i].arcs, d2.linkroles[i].arcs)
          /\ IsPermutation(d1.linkroles[i].roots, d2.linkroles[i].roots)

\* d2 is d1 with its linkrole URIs enumerated in another order
UriReenumeration(d1, d2) ==
    /\ d1.facts = d2.facts
    /\ IsPermutation(d1.linkroles, d2.linkroles)

\* no parent has two arcs with the same order to the same child
NoTiedArcs(doc) ==
    \A n \in 1..Len(doc.linkroles) :
        LET arcs == doc.linkroles[n].arcs IN
        \A i, j \in 1..Len(arcs) :
            (i # j /\ arcs[i].from = arcs[j].from /\ arcs[i].to = arcs[j].to)
                => arcs[i].order # arcs[j].order

\* no two target linkroles have the same code and definition
NoTiedTargets(doc) ==
    LET ts == TargetLinkroles(doc) IN
    \A i, j \in 1..Len(ts) :
        i # j => strip_xhtml(ts[i].definition) # strip_xhtml(ts[j].definition)

(***************************************************************************)
(* C3  Ordering stability.  The order part: the roots of the linkrole      *)
(* being walked are taken in ascending (minimum order of the root's arcs,  *)
(* root qualified name) and the children of every node in ascending (arc   *)
(* order, child qualified name); rows are appended as nodes are taken.     *)
(***************************************************************************)
RootKeyOf(c) ==
    LET out == { i \in 1..Len(relset) : relset[i].from = c }
        first == CHOOSE m \in { relset[i].order : i \in out } :
                     \A i \in out : m <= relset[i].order
    IN  [num |-> first, str |-> StrQName(c)]

ArcKeyOf(r) == [num |-> r.order, str |-> StrQName(r.to)]

C3_Ascending ==
    /\ \A i, j \in 1..Len(roots) :
          i < j => ~KeyLess(RootKeyOf(roots[j]), RootKeyOf(roots[i]))
    /\ (stack # <<>>) =>
          \A j \in 1..Len(roots) : ~KeyLess(RootKeyOf(roots[j]), RootKeyOf(stack[1].concept))
    /\ \A n \in 1..Len(stack) :
          /\ \A i, j \in 1..Len(stack[n].children) :
                i < j => ~KeyLess(ArcKeyOf(stack[n].children[j]),
                                  ArcKeyOf(stack[n].children[i]))
          /\ \A i \in 1..Len(stack[n].children) :
                stack[n].children[i].from = stack[n].concept
                    /\ stack[n].children[i] \in Range(relset)

\* C3 as claimed: that order, and the same row sequence for every order in
\* which the document model enumerates roots and arcs.
C3_OrderingStability ==
    /\ C3_Ascending
    /\ (Len(returned) = 2 /\ ArcRootReenumeration(FilingOf(1), FilingOf(2)))
          => returned[1] = returned[2]

(***************************************************************************)
(* C3 as amended: that order for every enumeration; the same row sequence  *)
(* for two enumerations of roots and arcs when no parent has two arcs with *)
(* the same order and child and the presentation-based consolidation map   *)
(* comes out the same for both.                                            *)
(***************************************************************************)
C3_OrderingStableUpToTies ==
    /\ C3_Ascending
    /\ (/\ Len(returned) = 2
        /\ ArcRootReenumeration(FilingOf(1), FilingOf(2))
        /\ NoTiedArcs(FilingOf(1))
        /\ extract_consolidation_info(FilingOf(1)) = extract_consolidation_info(FilingOf(2)))
          => returned[1] = returned[2]

\* a filing whose arcs come in reverse on the second load, with the roots
\* natively out of order, parsed twice
C3_Witness ==
    /\ Len(returned) = 2
    /\ FilingOf(1).linkroles[1].arcs = BS_ROOTS
    /\ FilingOf(2) = Reenumerate(FilingOf(1), "arcs")
    /\ FilingOf(2) # FilingOf(1)
    /\ NoTiedArcs(FilingOf(1))
    /\ returned[1] = returned[2]
    /\ Len(returned[1]) >= 6
    /\ returned[1][1].qname = StrQName("BSH")

(***************************************************************************)
(* C9  Statement order.  The order part: the rows of one parse_xbrl call   *)
(* are in ascending (6-digit code, definition) order of their linkrole.    *)
(***************************************************************************)
DefinitionKey(definition) == [num |-> 0, str |-> SubSeq(definition, 1, 6) \o definition]

RowsByStatement(rs) ==
    \A i, j \in 1..Len(rs) :
        i < j => ~KeyLess(DefinitionKey(rs[j].linkrole_definition),
                          DefinitionKey(rs[i].linkrole_definition))

C9_Ascending ==
    /\ RowsByStatement(rows)
    /\ \A k \in 1..Len(returned) : RowsByStatement(returned[k])

\* C9 as claimed: that order, and the same row sequence for every order in
\* which the document model enumerates its linkrole URIs.
C9_StatementOrder ==
    /\ C9_Ascending
    /\ (Len(returned) = 2 /\ UriReenumeration(FilingOf(1), FilingOf(2)))
          => returned[1] = returned[2]

(***************************************************************************)
(* C9 as amended: that order for every enumeration; the same row sequence  *)
(* for two enumerations of the linkrole URIs when no two target linkroles  *)
(* have the same code and definition and the presentation-based            *)
(* consolidation map comes out the same for both.                          *)
(***************************************************************************)
C9_StatementOrderUpToTies ==
    /\ C9_Ascending
    /\ (/\ Len(returned) = 2
        /\ UriReenumeration(FilingOf(1), FilingOf(2))
        /\ NoTiedTargets(FilingOf(1))
        /\ extract_consolidation_info(FilingOf(1)) = extract_consolidation_info(FilingOf(2)))
          => returned[1] = returned[2]

\* the cash-flow linkrole is enumerated first and walked second, on both
\* loads
C9_Witness ==
    /\ Len(returned) = 2
    /\ FilingOf(1).linkroles[1].definition = D_MARKUP
    /\ FilingOf(1).linkroles[2].definition = D_310010_S
    /\ FilingOf(2) = Reenumerate(FilingOf(1), "uris")
    /\ returned[1] = returned[2]
    /\ Len(returned[1]) >= 2
    /\ returned[1][1].linkrole_definition = D_310010_S
    /\ returned[1][Len(returned[1])].linkrole_definition = D_342010_B

(***************************************************************************)
(* The two classifier results behind a Fact row of the parse in progress   *)
(***************************************************************************)

\* context-based status of the row's context
RowCtx(r) == consolidation_from_context(ContextGet(r.context_id))

\* presentation-based status recorded for the row's top-level heading: the
\* first qualified name of the path, without "prefix:"
RowLr(r) ==
    LET heading == SplitFirst(r.qname_path, SEP)
        name    == SubSeq(heading, 3, Len(heading))
    IN  IF name \in DOMAIN consolidation_info THEN consolidation_info[name] ELSE "Unknown"

FactRowsOf(rs) == { rs[i] : i \in { k \in 1..Len(rs) : IsFactRow(rs[k]) } }

(***************************************************************************)
(* C4  Reconciliation laws: for every emitted Fact row, match_status is    *)
(* "Match" iff the context-based and the presentation-based status are     *)
(* both known and equal, "Mismatch" iff both are known and differ, and     *)
(* "Unknown" iff at least one of them is Unknown.                          *)
(***************************************************************************)
C4_ReconciliationLaws ==
    \A r \in FactRowsOf(rows) :
        LET ctx == RowCtx(r)
            lr  == RowLr(r)
        IN  /\ (r.match_status = "Match")
                  <=> (ctx # "Unknown" /\ lr # "Unknown" /\ ctx = lr)
            /\ (r.match_status = "Mismatch")
                  <=> (ctx # "Unknown" /\ lr # "Unknown" /\ ctx # lr)
            /\ (r.match_status = "Unknown")
                  <=> (ctx = "Unknown" \/ lr = "Unknown")

\* rows of one parse showing a Mismatch and an Unknown
C4_Witness ==
    /\ \E r \in FactRowsOf(rows) :
          r.match_status = "Mismatch" /\ RowCtx(r) = "Consolidated"
              /\ RowLr(r) = "NonConsolidated"
    /\ \E r \in FactRowsOf(rows) :
          r.match_status = "Unknown" /\ RowCtx(r) = "Consolidated" /\ RowLr(r) = "Unknown"

(***************************************************************************)
(* C5  Effective status: the consolidation_status of every Fact row is the *)
(* context-based status when that is not Unknown, otherwise the            *)
(* presentation-based status of the row's top-level heading (Unknown when  *)
(* none is recorded); the context-based status wins a conflict.            *)
(***************************************************************************)
C5_EffectiveStatus ==
    \A r \in FactRowsOf(rows) :
        r.consolidation_status
            = (IF RowCtx(r) # "Unknown" THEN RowCtx(r) ELSE RowLr(r))

\* one row that takes its status from the heading and one whose context
\* overrides a conflicting heading
C5_Witness ==
    /\ \E r \in FactRowsOf(rows) :
          RowCtx(r) = "Unknown" /\ RowLr(r) = "Consolidated"
              /\ r.consolidation_status = "Consolidated"
    /\ \E i \in 1..Len(model_xbrl.facts) :
          /\ CtxCons(model_xbrl.facts[i]) = "NonConsolidated"
          /\ IsCurrentYear(model_xbrl.facts[i].contextID)
          /\ \E r \in FactRowsOf(rows) :
                r.qname = StrQName(model_xbrl.facts[i].concept)

(***************************************************************************)
(* C6  Linkrole filtering, as claimed: every linkrole that is walked has a *)
(* definition that starts with exactly six digits (not fewer, not seven or *)
(* more), and those six digits are a configured target code.               *)
(***************************************************************************)
ExactlySixLeadingDigits(s) ==
    /\ Len(s) >= 6
    /\ \A i \in 1..6 : s[i] \in Digits
    /\ Len(s) >= 7 => s[7] \notin Digits

C6_OnlyExactlySixDigits ==
    /\ \A i \in 1..Len(targets) :
          /\ ExactlySixLeadingDigits(targets[i].definition)
          /\ SubSeq(targets[i].definition, 1, 6) \in TARGET_ELR_CODES
    /\ \A i \in 1..Len(rows) :
          /\ ExactlySixLeadingDigits(rows[i].linkrole_definition)
          /\ SubSeq(rows[i].linkrole_definition, 1, 6) \in TARGET_ELR_CODES

(***************************************************************************)
(* C7  Current-period selection: the context id of every Fact row begins   *)
(* with "CurrentYearDuration" or "CurrentYearInstant".                     *)
(***************************************************************************)
C7_CurrentYearOnly ==
    \A r \in FactRowsOf(rows) \cup UNION { FactRowsOf(returned[k]) : k \in 1..Len(returned) } :
        \/ (Len(r.context_id) >= 2 /\ r.context_id[1] = "CurrentYear"
                /\ r.context_id[2] = "Duration")
        \/ (Len(r.context_id) >= 2 /\ r.context_id[1] = "CurrentYear"
                /\ r.context_id[2] = "Instant")

\* the first fact of the concept is consolidated but of another period (or
\* carries the marker later in its id); the row comes from the second fact
C7_Witness ==
    /\ Len(returned) >= 1
    /\ Len(FilingOf(1).facts) = 2
    /\ FilingOf(1).facts[1].concept = "CASH"
    /\ FilingOf(1).facts[1].contextID \in {P1YI_C, X_CYD}
    /\ FilingOf(1).facts[2].concept = "CASH"
    /\ \E r \in FactRowsOf(returned[1]) :
          r.qname = StrQName("CASH") /\ r.context_id = FilingOf(1).facts[2].contextID

(***************************************************************************)
(* C8  Non-consolidated facts are filtered: no Fact row has an effective   *)
(* status other than Consolidated, and when a visited concept has a        *)
(* current-year Consolidated fact and a current-year NonConsolidated one,  *)
(* in either order, its Fact row is there and is not the NonConsolidated   *)
(* one.                                                                    *)
(***************************************************************************)
RowEffective(r) == IF RowCtx(r) # "Unknown" THEN RowCtx(r) ELSE RowLr(r)

VisitedConcepts(doc) == UNION { VisitedIn(lr) : lr \in Range(TargetLinkroles(doc)) }

CleanCurrent(f) ==
    /\ IsCurrentYear(f.contextID)
    /\ ~(f.isStr /\ TagSearch(f.xValue))

C8_NonConsolidatedFiltered ==
    /\ \A r \in FactRowsOf(rows) : RowEffective(r) = "Consolidated"
    /\ (pc = "main" /\ Len(returned) >= 1) =>
          LET doc == FilingOf(Len(returned)) IN
          \A c \in VisitedConcepts(doc) :
              (\E i, j \in 1..Len(doc.facts) :
                  /\ doc.facts[i].concept = c /\ doc.facts[j].concept = c
                  /\ CleanCurrent(doc.facts[i]) /\ CleanCurrent(doc.facts[j])
                  /\ CtxCons(doc.facts[i]) = "Consolidated"
                  /\ CtxCons(doc.facts[j]) = "NonConsolidated")
              => /\ \E r \in FactRowsOf(rows) : r.qname = StrQName(c)
                 /\ \A r \in FactRowsOf(rows) :
                       r.qname = StrQName(c) => RowCtx(r) # "NonConsolidated"

\* the NonConsolidated fact is enumerated first, the row is the second fact
C8_Witness ==
    /\ pc = "main"
    /\ Len(returned) = 1
    /\ FilingOf(1).facts = << Fact("CASH", CYI_NC, FALSE, <<"2">>),
                              Fact("CASH", CYD_C, FALSE, <<"3">>) >>
    /\ \E r \in FactRowsOf(rows) :
          r.qname = StrQName("CASH") /\ r.context_id = CYD_C /\ r.value = <<"3">>

(***************************************************************************)
(* C10  Cross-statement reuse, as claimed: the Fact row of a concept       *)
(* carries the definition of the first-walked target linkrole in whose     *)
(* tree the concept occurs.                                                *)
(***************************************************************************)
ConceptOfRow(r) == CHOOSE c \in ConceptIds : StrQName(c) = r.qname

LinkroleKey(lr) == DefinitionKey(strip_xhtml(lr.definition))

C10_ReportedUnderFirstWalked ==
    (pc = "main" /\ Len(returned) >= 1) =>
        LET doc == FilingOf(Len(returned)) IN
        \A r \in FactRowsOf(rows) :
            \A lr \in Range(TargetLinkroles(doc)) :
                ConceptOfRow(r) \in VisitedIn(lr)
                    => ~KeyLess(LinkroleKey(lr), DefinitionKey(r.linkrole_definition))

(***************************************************************************)
(* C10 as amended: a concept has at most one Fact row; the row sits in the *)
(* first-walked target linkrole in which one of the concept's facts passes *)
(* the filters (the effective status there depends on that occurrence's    *)
(* top-level heading), which need not be the first linkrole the concept    *)
(* occurs in; a concept with such an occurrence has its row.               *)
(***************************************************************************)
\* a fact of c passes the consolidation, period and markup filters at an
\* occurrence of c below a root of lr
QualifiesIn(doc, lr, c) ==
    \E root \in Range(lr.roots) :
        /\ c \in ReachableIn(lr, root)
        /\ \E i \in 1..Len(doc.facts) :
              LET f  == doc.facts[i]
                  lrs == IF localName(root) \in DOMAIN consolidation_info
                         THEN consolidation_info[localName(root)] ELSE "Unknown"
                  eff == IF CtxCons(f) # "Unknown" THEN CtxCons(f) ELSE lrs
              IN  f.concept = c /\ eff = "Consolidated" /\ CleanCurrent(f)

C10_ReportedWhereFirstAccepted ==
    (pc = "main" /\ Len(returned) >= 1) =>
        LET doc == FilingOf(Len(returned)) IN
        /\ \A r1, r2 \in FactRowsOf(rows) : r1.qname = r2.qname => r1 = r2
        /\ \A r \in FactRowsOf(rows) :
              \A lr \in Range(TargetLinkroles(doc)) :
                  KeyLess(LinkroleKey(lr), DefinitionKey(r.linkrole_definition))
                      => ~QualifiesIn(doc, lr, ConceptOfRow(r))
        /\ \A c \in ConceptIds :
              (\E lr \in Range(TargetLinkroles(doc)) : QualifiesIn(doc, lr, c))
                  => \E r \in FactRowsOf(rows) : r.qname = StrQName(c)

\* CashAndDeposits occurs in both statements; its only fact has no
\* consolidation dimension, the balance sheet has no consolidation axis,
\* and the row is reported under the cash-flow statement
C10_Witness ==
    /\ pc = "main"
    /\ Len(returned) = 1
    /\ FilingOf(1).linkroles[1].arcs = BS_NONE
    /\ FilingOf(1).linkroles[2].arcs = CF_C
    /\ FilingOf(1).facts = << Fact("CASH", CYI, FALSE, <<"1">>) >>
    /\ \E r \in FactRowsOf(rows) :
          r.qname = StrQName("CASH") /\ r.linkrole_definition = D_342010_B
    /\ Cardinality(FactRowsOf(rows)) = 1

(***************************************************************************)
(* C11  First matching fact wins: every Fact row carries the value and the *)
(* context id of the first fact, in model_xbrl.facts order, that is of the *)
(* row's concept, has effective status Consolidated under the row's        *)
(* top-level heading, has a current-year context id and no markup in a     *)
(* textual value.  Facts skipped before it did not stop the scan and did   *)
(* not mark the concept as seen: the seen-set holds exactly the concepts   *)
(* that have a Fact row.                                                   *)
(***************************************************************************)
\* the filing of the rows held in the variable rows
DocOfRows == filings[IF pc = "main" THEN fidx - 1 ELSE fidx]

\* fact f passes the four filters at the occurrence row r was emitted for
QualifiesFor(f, r) ==
    /\ f.concept = ConceptOfRow(r)
    /\ (IF CtxCons(f) # "Unknown" THEN CtxCons(f) ELSE RowLr(r)) = "Consolidated"
    /\ CleanCurrent(f)

C11_FirstMatchingFactWins ==
    /\ seen_qnames = { r.qname : r \in FactRowsOf(rows) }
    /\ (rows # <<>>) =>
          \A r \in FactRowsOf(rows) :
              \E i \in 1..Len(DocOfRows.facts) :
                  /\ QualifiesFor(DocOfRows.facts[i], r)
                  /\ r.value = DocOfRows.facts[i].xValue
                  /\ r.context_id = DocOfRows.facts[i].contextID
                  /\ \A j \in 1..(i - 1) : ~QualifiesFor(DocOfRows.facts[j], r)

\* a markup-contaminated Assets fact is enumerated before the clean one and
\* two qualifying CashAndDeposits facts follow: the rows carry the clean
\* Assets fact and the first of the two CashAndDeposits facts
C11_Witness ==
    /\ pc = "main"
    /\ Len(returned) = 1
    /\ Len(FilingOf(1).facts) = 4
    /\ HasMarkup(FilingOf(1).facts[1])
    /\ FilingOf(1).facts[1].concept = "ASSETS"
    /\ \E r \in FactRowsOf(rows) :
          r.qname = StrQName("ASSETS") /\ r.value = <<"0">> /\ r.context_id = CYD_O
    /\ \E r \in FactRowsOf(rows) :
          /\ r.qname = StrQName("CASH") /\ r.value = <<"3">> /\ r.context_id = CYD_C
          /\ QualifiesFor(FilingOf(1).facts[4], r)
    /\ seen_qnames = {StrQName("ASSETS"), StrQName("CASH")}

(***************************************************************************)
(* C12  Classification ambiguity, as claimed: a fact whose status neither  *)
(* estimator determines (its context yields Unknown and so does the        *)
(* heading of every occurrence of its concept) is recorded in an output    *)
(* row with consolidation_status "Unknown".  Stated for a concept whose    *)
(* only fact it is, with a current-year context id and no markup.          *)
(***************************************************************************)
\* presentation-based status of the heading localName(root)
HeadingStatus(root) ==
    IF localName(root) \in DOMAIN consolidation_info
    THEN consolidation_info[localName(root)] ELSE "Unknown"

\* every occurrence of c in a target linkrole of doc lies below a root whose
\* heading has no known status
UnknownEverywhere(doc, c) ==
    \A lr \in Range(TargetLinkroles(doc)) :
        \A root \in Range(lr.roots) :
            c \in ReachableIn(lr, root) => HeadingStatus(root) = "Unknown"

\* the facts of doc whose status cannot be determined and that pass the
\* other filters, their concept being visited and having no other fact
Undetermined(doc) ==
    { i \in 1..Len(doc.facts) :
        /\ doc.facts[i].concept \in VisitedConcepts(doc)
        /\ CtxCons(doc.facts[i]) = "Unknown"
        /\ UnknownEverywhere(doc, doc.facts[i].concept)
        /\ CleanCurrent(doc.facts[i])
        /\ \A j \in 1..Len(doc.facts) :
              j # i => doc.facts[j].concept # doc.facts[i].concept }

C12_UnknownRecorded ==
    (pc = "main" /\ Len(returned) >= 1) =>
        LET doc == FilingOf(Len(returned)) IN
        \A i \in Undetermined(doc) :
            \E r \in FactRowsOf(rows) :
                /\ r.qname = StrQName(doc.facts[i].concept)
                /\ r.value = doc.facts[i].xValue
                /\ r.context_id = doc.facts[i].contextID
                /\ r.consolidation_status = "Unknown"

(***************************************************************************)
(* C12 as amended: such a fact is skipped, the walk going on without an    *)
(* error: its concept gets no Fact row, and no Fact row ever carries the   *)
(* consolidation_status "Unknown" (every Fact row says "Consolidated");    *)
(* "Unknown" appears in a Fact row only as the match_status.               *)
(***************************************************************************)
C12_UnknownSkipped ==
    /\ \A r \in FactRowsOf(rows) : r.consolidation_status = "Consolidated"
    /\ (pc = "main" /\ Len(returned) >= 1) =>
          LET doc == FilingOf(Len(returned)) IN
          \A i \in Undetermined(doc) :
              \A r \in FactRowsOf(rows) : r.qname # StrQName(doc.facts[i].concept)

\* neither statement has a consolidation axis and the only fact of
\* CashAndDeposits has no dimension: the parse finishes with the headings
\* and without a row for the fact
C12_Witness ==
    /\ pc = "main"
    /\ Len(returned) = 1
    /\ FilingOf(1).linkroles[1].arcs = BS_NONE
    /\ FilingOf(1).linkroles[2].arcs = CF_NONE
    /\ FilingOf(1).facts[1] = Fact("CASH", CYI, FALSE, <<"1">>)
    /\ 1 \in Undetermined(FilingOf(1))
    /\ \A r \in FactRowsOf(rows) : r.qname # StrQName("CASH")
    /\ \E i \in 1..Len(rows) : IsHeadingRow(rows[i]) /\ rows[i].qname = StrQName("CFH")
    /\ Len(rows) >= 4

(***************************************************************************)
(* C13  filter_by_codes with non-empty filters (a list with an element, a  *)
(* str with a character) returns exactly the documents of the input list,  *)
(* in input order and as they are, whose edinetCode is one of the given    *)
(* EDINET codes and whose docTypeCode is one of the given document-type    *)
(* codes; a str filter gives what the one-element list of that str gives. *)
(***************************************************************************)
\* the codes a non-empty filter names
GivenCodes(codes) == IF codes.isStr THEN { codes.val } ELSE Range(codes.val)

\* indices of the documents that carry one of the given codes under each key
Kept(docs, edinet_codes, doc_type_codes) ==
    { i \in 1..Len(docs) :
        /\ "edinetCode" \in DOMAIN docs[i]
        /\ docs[i]["edinetCode"] \in GivenCodes(edinet_codes)
        /\ "docTypeCode" \in DOMAIN docs[i]
        /\ docs[i]["docTypeCode"] \in GivenCodes(doc_type_codes) }

\* the k-th smallest element of the set of indices I
KthOf(I, k) == CHOOSE i \in I : Cardinality({ j \in I : j <= i }) = k

AsList(codes) == IF codes.isStr THEN ListArg(<< codes.val >>) ELSE codes

C13_FilterByCodes ==
    (/\ pc = "filtered"
     /\ Len(arg_edinet_codes.val) > 0
     /\ Len(arg_doc_type_codes.val) > 0) =>
        LET I == Kept(arg_docs, arg_edinet_codes, arg_doc_type_codes) IN
        /\ Len(result) = Cardinality(I)
        /\ \A k \in 1..Len(result) : result[k] = arg_docs[KthOf(I, k)]
        /\ result = filter_by_codes(arg_docs, AsList(arg_edinet_codes),
                                    AsList(arg_doc_type_codes))

\* both filters given as a str; of the two documents, the second has a code
\* that is a part of the str and the first has exactly that code
C13_Witness ==
    /\ pc = "filtered"
    /\ arg_edinet_codes = StrArg(E00001)
    /\ arg_doc_type_codes = StrArg(T130)
    /\ arg_docs = << MakeDoc(E00001, T130), MakeDoc(E0000, T130) >>
    /\ result = << MakeDoc(E00001, T130) >>

(***************************************************************************)
(* C14  Determinism given fixed fact order: two parse_xbrl runs on the     *)
(* same document model (the same facts, linkroles, roots and arcs in the   *)
(* same enumeration order), each with its own fresh seen-set and           *)
(* preferred-label map, return identical row sequences.                    *)
(***************************************************************************)
C14_Deterministic ==
    \A i, j \in 1..Len(returned) :
        FilingOf(i) = FilingOf(j) => returned[i] = returned[j]

\* the same filing parsed twice in a row, with Fact rows among its rows
C14_Witness ==
    /\ Len(returned) = 2
    /\ FilingOf(1) = FilingOf(2)
    /\ returned[1] = returned[2]
    /\ Cardinality(FactRowsOf(returned[2])) >= 2
    /\ \E i \in 1..Len(returned[2]) : IsHeadingRow(returned[2][i])

(***************************************************************************)
(* C15  Preferred-label inheritance, as claimed: the preferred_label of a  *)
(* row emitted for a node reached through an arc is the label computed     *)
(* from an arc of the linkrole being walked that leads from the node's     *)
(* parent in the path to the node (its preferred-label role, ja then en),  *)
(* and the preferred_label of a row emitted for a root of the linkrole is  *)
(* the node's default label; a label recorded for the concept earlier in   *)
(* the walk is not used.                                                   *)
(***************************************************************************)
EndsWith(a, suffix) ==
    Len(suffix) <= Len(a) /\ SubSeq(a, Len(a) - Len(suffix) + 1, Len(a)) = suffix

\* the row was emitted by a call parse_xbrl made on a root
IsRootRow(r) == r.qname_path = r.qname

\* arcs of the target linkroles of doc that carry the definition of row r
ArcsOfRow(doc, r) ==
    UNION { Range(lr.arcs) :
              lr \in { x \in Range(TargetLinkroles(doc)) :
                          strip_xhtml(x.definition) = r.linkrole_definition } }

LabelFromLeadingArc(doc, r) ==
    \E arc \in ArcsOfRow(doc, r) :
        /\ StrQName(arc.to) = r.qname
        /\ EndsWith(r.qname_path, StrQName(arc.from) \o << SEP >> \o r.qname)
        /\ r.preferred_label = ChildLabel(arc.to, arc.preferredLabel)

C15_PreferredLabelInheritance ==
    (rows # <<>>) =>
        \A i \in 1..Len(rows) :
            IF IsRootRow(rows[i])
            THEN rows[i].preferred_label = rows[i].default_label
            ELSE LabelFromLeadingArc(DocOfRows, rows[i])

(***************************************************************************)
(* C16  Filing-local state: when main parses several filings one after     *)
(* another, the rows returned for a filing parsed after others are the     *)
(* rows returned for that filing when it is parsed first, with nothing     *)
(* before it; a concept that got a Fact row for an earlier filing gets one *)
(* for a later filing in which one of its facts passes the filters;        *)
(* aggregated is at all times the rows of the filings parsed so far, in    *)
(* order, and a step only ever appends to it.                              *)
(***************************************************************************)
RECURSIVE Flatten(_)
Flatten(ss) == IF ss = <<>> THEN <<>> ELSE Head(ss) \o Flatten(Tail(ss))

IsPrefix(a, b) == Len(a) <= Len(b) /\ SubSeq(b, 1, Len(a)) = a

HasFactRow(rs, c) == \E r \in FactRowsOf(rs) : r.qname = StrQName(c)

\* a fact of c passes the consolidation, period and markup filters at an
\* occurrence of c in a target linkrole of doc
QualifiesInFiling(doc, c) ==
    LET info == extract_consolidation_info(doc) IN
    \E lr \in Range(TargetLinkroles(doc)) :
        \E root \in Range(lr.roots) :
            /\ c \in ReachableIn(lr, root)
            /\ \E i \in 1..Len(doc.facts) :
                  LET f   == doc.facts[i]
                      lrs == DictGet(info, localName(root), "Unknown")
                      eff == IF CtxCons(f) # "Unknown" THEN CtxCons(f) ELSE lrs
                  IN  f.concept = c /\ eff = "Consolidated" /\ CleanCurrent(f)

FilingLocal ==
    /\ \A j \in 2..Len(returned) :
          FilingOf(j) = FilingOf(1) => returned[j] = returned[1]
    /\ \A j \in 2..Len(returned) :
          \A c \in ConceptIds :
              (/\ \E i \in 1..(j - 1) : HasFactRow(returned[i], c)
               /\ QualifiesInFiling(FilingOf(j), c))
                  => HasFactRow(returned[j], c)
    /\ aggregated = Flatten(returned)

C16_FilingLocalState == [] FilingLocal /\ [][IsPrefix(aggregated, aggregated')]_vars

\* a filing parsed first and again after a different filing that left other
\* labels and seen concepts behind: the same rows, CashAndDeposits emitted
\* for all three
C16_Witness ==
    /\ Len(returned) = 3
    /\ FilingOf(3) = FilingOf(1)
    /\ FilingOf(2) # FilingOf(1)
    /\ returned[3] = returned[1]
    /\ returned[2] # returned[1]
    /\ \A k \in 1..3 : HasFactRow(returned[k], "CASH")
    /\ aggregated = returned[1] \o returned[2] \o returned[3]

(***************************************************************************)
(* C17  Termination of the walk, as claimed: when the arcs of every target *)
(* linkrole form an acyclic graph, parse_xbrl is not ended by an error and *)
(* returns with each node visited once per root-to-node path; a filing     *)
(* with a cycle reachable from a root of a target linkrole never returns.  *)
(***************************************************************************)
Successors(arcs, c) == { arcs[i].to : i \in { k \in 1..Len(arcs) : arcs[k].from = c } }

OnCycle(arcs, c) == c \in Reach(arcs, Successors(arcs, c), Len(arcs))

AcyclicTargets(doc) ==
    \A lr \in Range(TargetLinkroles(doc)) : \A c \in ConceptIds : ~OnCycle(lr.arcs, c)

CycleBelowRoot(doc) ==
    \E lr \in Range(TargetLinkroles(doc)) :
        \E root \in Range(lr.roots) :
            \E c \in ReachableIn(lr, root) : OnCycle(lr.arcs, c)

\* number of arc paths from node n to concept c (no cycle below n)
RECURSIVE PathsFrom(_, _, _)
RECURSIVE PathsThrough(_, _, _, _)
PathsFrom(arcs, n, c) == (IF n = c THEN 1 ELSE 0) + PathsThrough(arcs, n, c, 1)

PathsThrough(arcs, n, c, i) ==
    IF i > Len(arcs) THEN 0
    ELSE (IF arcs[i].from = n THEN PathsFrom(arcs, arcs[i].to, c) ELSE 0)
         + PathsThrough(arcs, n, c, i + 1)

RECURSIVE Sum(_)
Sum(ns) == IF ns = <<>> THEN 0 ELSE Head(ns) + Sum(Tail(ns))

\* number of paths from the roots of the target linkroles of doc to c
RootPaths(doc, c) ==
    LET lrs == TargetLinkroles(doc) IN
    Sum([n \in 1..Len(lrs) |->
            Sum([i \in 1..Len(lrs[n].roots) |->
                    PathsFrom(lrs[n].arcs, lrs[n].roots[i], c)])])

VisitCount(c) == Cardinality({ i \in 1..Len(visited) : visited[i] = c })

\* the rows of the last filing have been returned and visited is its walk
Returned == pc = "main" /\ Len(returned) >= 1

Done == pc = "main" /\ fidx > Len(filings)

C17_TerminatesWhenAcyclic ==
    /\ (pc = "error") => ~AcyclicTargets(filings[fidx])
    /\ (Returned /\ AcyclicTargets(FilingOf(Len(returned)))) =>
          \A c \in ConceptIds : VisitCount(c) = RootPaths(FilingOf(Len(returned)), c)
    /\ \A k \in 1..Len(returned) : ~CycleBelowRoot(FilingOf(k))

(***************************************************************************)
(* C17 as amended: parse_xbrl returns, each node visited once per          *)
(* root-to-node path, when no recursion nests deeper than the interpreter  *)
(* allows: neither the walk below a root of a target linkrole nor traverse *)
(* of extract_consolidation_info below a heading of any linkrole, target   *)
(* or not.  Otherwise (a cycle below such a root or heading, or a chain    *)
(* deeper than the limit) RecursionError ends the run and parse_xbrl never *)
(* returns.  The calls made on the concept just entered never exceed the   *)
(* paths to it (filings are fixed from the first state, where the cycle    *)
(* condition is checked for each), and a run that has neither ended with   *)
(* the last filing nor with that error has a next step.                    *)
(***************************************************************************)
WalkOverflows(doc) ==
    \E lr \in Range(TargetLinkroles(doc)) :
        \E root \in Range(lr.roots) : Deepest(lr.arcs, root, MaxDepth + 1) > MaxDepth

Overflows(doc) == TraverseOverflows(doc) \/ WalkOverflows(doc)

\* the program has a step to take: the guard of ParseBegin, CallRoot or
\* CallChild holds, or one of the other actions is enabled
HasNextStep ==
    \/ pc = "main" /\ fidx <= Len(filings) /\ ~TraverseOverflows(model_xbrl)
    \/ pc = "walk" /\ stack = <<>> /\ roots # <<>>
    \/ pc = "walk" /\ stack # <<>> /\ stack[Len(stack)].children # <<>>
          /\ Len(stack) < MaxDepth
    \/ ENABLED (TraverseRecursionError \/ NextTarget \/ WalkRecursionError
                   \/ Return \/ ParseReturn)

C17_TerminatesWithinRecursionLimit ==
    /\ (pc = "error") => Overflows(filings[fidx])
    /\ \A k \in 1..Len(returned) : ~Overflows(FilingOf(k))
    /\ (pc = "main" /\ fidx = 1) =>
          \A k \in 1..Len(filings) : CycleBelowRoot(filings[k]) => WalkOverflows(filings[k])
    /\ Returned =>
          \A c \in ConceptIds : VisitCount(c) = RootPaths(FilingOf(Len(returned)), c)
    /\ (pc = "walk" /\ visited # <<>> /\ ~Overflows(model_xbrl)) =>
          LET c == visited[Len(visited)] IN VisitCount(c) <= RootPaths(model_xbrl, c)
    /\ Done \/ pc = "error" \/ HasNextStep

\* a finished parse of a filing whose balance sheet reaches AssetsAbstract
\* and CashAndDeposits along several paths
C17_Witness ==
    /\ Returned
    /\ Len(returned) = 1
    /\ FilingOf(1).linkroles[1].arcs = BS_DAG
    /\ AcyclicTargets(FilingOf(1))
    /\ ~Overflows(FilingOf(1))
    /\ VisitCount("AA") = 2
    /\ VisitCount("CASH") >= 3
    /\ RootPaths(FilingOf(1), "CASH") = VisitCount("CASH")

=============================================================================
